---- MODULE Spec2Model ----
(***************************************************************************)
(* underbase-cli: the `migrate` command of src/src/cli.ts, driving the     *)
(* migration engine of the `underbase` package (migrator.config, add,      *)
(* getVersion, migrateTo).  Versions are numbers with one fractional       *)
(* digit; they are held here in tenths (1.2 is 12).  File names are        *)
(* sequences of one-character strings.                                     *)
(***************************************************************************)
EXTENDS Integers, Sequences, FiniteSets, TLC

(***************************************************************************)
(* Bounds of the model.                                                    *)
(***************************************************************************)
\* versions 1.0 .. 1.MaxMinor may exist as directory entries
MaxMinor == 2
\* a migrations directory holds at most MaxEntries entries
MaxEntries == 3

(***************************************************************************)
(* Characters and strings.                                                 *)
(***************************************************************************)
DigitChars == <<"0", "1", "2", "3", "4", "5", "6", "7", "8", "9">>

Digits == {DigitChars[i] : i \in 1..10}

DigitVal(c) == (CHOOSE i \in 1..10 : DigitChars[i] = c) - 1

\* the value strcmp orders file names by (ASCII)
CharCode(c) ==
  IF c \in Digits THEN 48 + DigitVal(c)
  ELSE IF c = "." THEN 46
  ELSE IF c = "A" THEN 65
  ELSE IF c = "D" THEN 68
  ELSE IF c = "E" THEN 69
  ELSE IF c = "M" THEN 77
  ELSE IF c = "R" THEN 82
  ELSE IF c = "a" THEN 97
  ELSE IF c = "d" THEN 100
  ELSE 109 \* "m"

NaN == -1

\* the number of leading decimal digits of s
RECURSIVE DigitPrefixLen(_)
DigitPrefixLen(s) ==
  IF s = <<>> \/ Head(s) \notin Digits THEN 0 ELSE 1 + DigitPrefixLen(Tail(s))

\* the value of a sequence of decimal digits
RECURSIVE DigitsValue(_)
DigitsValue(s) ==
  IF s = <<>> THEN 0 ELSE 10 * DigitsValue(SubSeq(s, 1, Len(s) - 1)) + DigitVal(s[Len(s)])

\* parseFloat: the longest prefix of s that is a decimal literal (digits, then
\* optionally a dot and digits), NaN when there is none.  The result is in
\* tenths; the strings parsed here carry at most one fractional digit.
ParseFloat(s) ==
  LET n == DigitPrefixLen(s)
      int == DigitsValue(SubSeq(s, 1, n))
      rest == SubSeq(s, n + 1, Len(s))
      hasFrac == /\ Len(rest) >= 2
                 /\ rest[1] = "."
                 /\ rest[2] \in Digits
  IN IF n = 0 /\ ~hasFrac THEN NaN
     ELSE 10 * int + (IF hasFrac THEN DigitVal(rest[2]) ELSE 0)

\* the decimal digits of a natural number
RECURSIVE NatToStr(_)
NatToStr(n) ==
  IF n < 10 THEN <<DigitChars[n + 1]>>
  ELSE NatToStr(n \div 10) \o <<DigitChars[(n % 10) + 1]>>

\* Number.prototype.toFixed(1) of a number held in tenths
ToFixed1(n) == NatToStr(n \div 10) \o <<".", DigitChars[(n % 10) + 1]>>

\* String(n) of a number held in tenths: 1.0 prints as "1", 1.2 as "1.2"
NumToStr(n) ==
  IF n % 10 = 0 THEN NatToStr(n \div 10) ELSE ToFixed1(n)

\* strcmp(a, b) < 0
RECURSIVE StrLess(_, _)
StrLess(a, b) ==
  IF b = <<>> THEN FALSE
  ELSE IF a = <<>> THEN TRUE
  ELSE IF Head(a) # Head(b) THEN CharCode(Head(a)) < CharCode(Head(b))
  ELSE StrLess(Tail(a), Tail(b))

\* fs.readdirSync: the entries of a directory, in strcmp order
RECURSIVE ReaddirSync(_)
ReaddirSync(entries) ==
  IF entries = {} THEN <<>>
  ELSE LET first == CHOOSE e \in entries : \A f \in entries \ {e} : StrLess(e, f)
       IN <<first>> \o ReaddirSync(entries \ {first})

\* v.match(/^[\d].[\d]$/): a digit, any one character, a digit
MatchesVersionPattern(v) ==
  /\ Len(v) = 3
  /\ v[1] \in Digits
  /\ v[3] \in Digits

\* readdirSync(dir).filter(v => v.match(...))
FilterVersions(listing) == SelectSeq(listing, MatchesVersionPattern)

\* Array.prototype.indexOf, 0-based, -1 when absent
IndexOf(s, x) ==
  IF \E i \in 1..Len(s) : s[i] = x
    THEN (CHOOSE i \in 1..Len(s) : s[i] = x /\ \A j \in 1..(i - 1) : s[j] # x) - 1
    ELSE -1

Range(s) == {s[i] : i \in 1..Len(s)}

(***************************************************************************)
(* Inputs: the migrations directory and the command line.                  *)
(***************************************************************************)
README == <<"R", "E", "A", "D", "M", "E", ".", "m", "d">>

\* the names a migrations directory may hold
EntryPool ==
  {<<"1", ".", DigitChars[d + 1]>> : d \in 0..MaxMinor} \cup {<<"1", "a", "0">>, README}

Directories == {d \in SUBSET EntryPool : Cardinality(d) <= MaxEntries}

\* the values of <migration> on the command line (yargs hands numbers over)
Migrations == {0} \cup {10 + d : d \in 0..MaxMinor} \cup {20}

VARIABLES
  dir,          \* the entries of config.migrationsDir
  argv,         \* [migration, rerun] of the command line
  configFile,   \* [logIfLatest] of the caller's configuration file (cli.ts:91-96)
  config,       \* [backup, logIfLatest] (cli.ts:102-125)
  pc,           \* where the main async function of cli.ts stands
  versions,     \* the local `versions` of cli.ts
  cb,           \* the state of each callback of versions.forEach
  registry,     \* migrator: the registered units' versions, ascending
  store,        \* Version Store: the persisted currentVersion
  startVersion, \* the persisted currentVersion when the process started
  runner,       \* migrator.migrateTo: the Runner's state
  plan,         \* migrator.migrateTo: the steps still to run
  inflight,     \* the step whose operation or whose setVersion is pending
  opsLog,       \* the unit operations started by this process, in order
  writes,       \* the versions setVersion has persisted in this process
  backup,       \* [count, status, file]: createBackup of this process
  error,        \* [kind, failing, last]: the error this process reported
  dupErrors,    \* the add calls that failed with DuplicateVersionError
  latestNotice, \* whether the "already at latest" notice was emitted
  dbCalls       \* the units' database calls issued and not yet resolved

vars == <<dir, argv, configFile, config, pc, versions, cb, registry, store, startVersion,
          runner, plan, inflight, opsLog, writes, backup, error, dupErrors, latestNotice,
          dbCalls>>

NoStep == [direction |-> "none", version |-> 0, result |-> 0, phase |-> "none"]
NoError == [kind |-> "none", failing |-> 0, last |-> 0]
NoBackup == [count |-> 0, status |-> "none", file |-> <<>>]

(***************************************************************************)
(* cli.ts: configuration and the `migrate` command.                        *)
(***************************************************************************)
\* config.backup: argv.backup || configFile.backup || false
ConfigBackup(argvBackup, fileBackup) == argvBackup \/ fileBackup

\* config.logIfLatest: the literal `true` of cli.ts:108; neither argv nor the
\* configuration file is read for it
ConfigLogIfLatest(fileLogIfLatest) == TRUE

\* what the configuration file may say of logIfLatest
FileLogIfLatest == {"true", "false", "unset"}

\* versions.map(v => parseFloat(v))
RECURSIVE VersionsArray(_)
VersionsArray(vs) ==
  IF vs = <<>> THEN <<>> ELSE <<ParseFloat(Head(vs))>> \o VersionsArray(Tail(vs))

\* versionsArray.map(v => v.toFixed(1))
RECURSIVE NormalisedVersions(_)
NormalisedVersions(va) ==
  IF va = <<>> THEN <<>> ELSE <<ToFixed1(Head(va))>> \o NormalisedVersions(Tail(va))

\* VersionExists with the versions compared by their integer part (parseInt)
VersionExistsIntegerPart(migration, versionsArray) ==
  \/ migration = 0
  \/ \E i \in 1..Len(versionsArray) : versionsArray[i] \div 10 = migration \div 10

\* VersionExists without the exemption of 0
VersionExistsNoZero(migration, versionsArray) ==
  IndexOf(versionsArray, ParseFloat(NumToStr(migration))) >= 0

\* the negation of the rejecting condition
\*   argv.migration !== 0 && versionsArray.indexOf(parseFloat(argv.migration)) < 0
VersionExists(migration, versionsArray) ==
  \/ migration = 0
  \/ IndexOf(versionsArray, ParseFloat(NumToStr(migration))) >= 0

\* MigrateSpec with the version cut to its integer part
MigrateSpecTruncated(migration, rerun) ==
  [target |-> 10 * (migration \div 10), forceRerun |-> rerun]

\* MigrateSpec with the two branches of `if (argv.rerun)` taking the rerun form
MigrateSpecAlwaysRerun(migration, rerun) == [target |-> migration, forceRerun |-> TRUE]

\* MigrateSpec with the rerun flag dropped
MigrateSpecNoRerun(migration, rerun) == [target |-> migration, forceRerun |-> FALSE]

\* the argument of migrator.migrateTo: `${argv.migration},rerun` or argv.migration
MigrateSpec(migration, rerun) == [target |-> migration, forceRerun |-> rerun]

\* NeedsBackup with the option ignored
NeedsBackupNever(cfg) == FALSE

\* whether the backup step runs: if (config.backup)
NeedsBackup(cfg) == cfg.backup

\* AfterBackup without the process.exit() of the error branch
AfterBackupContinue(failed) == "migrateTo"

\* the exec callback of createBackup: process.exit() on error, resolve() otherwise
AfterBackup(failed) == IF failed THEN "exited" ELSE "migrateTo"

\* require(`${config.migrationsDir}/${v}`) finds a module
Loadable(entries, v) == v \in entries

\* the first step of a forEach callback: require() runs before the first await
CallbackStart(entries, v) == IF Loadable(entries, v) THEN "loaded" ELSE "rejected"

\* callbacks resumed by the microtask queue come before any I/O completion
MicrotaskPending == \E i \in 1..Len(cb) : cb[i] = "loaded"

Init ==
  /\ dir \in Directories
  /\ argv \in [migration : Migrations, rerun : BOOLEAN]
  /\ configFile \in [logIfLatest : FileLogIfLatest]
  /\ config \in {[backup |-> ConfigBackup(a, f),
                  logIfLatest |-> ConfigLogIfLatest(configFile.logIfLatest)] :
                   a, f \in BOOLEAN}
  /\ pc = "start"
  /\ versions = <<>>
  /\ cb = <<>>
  /\ registry = <<>>
  /\ store = 0
  /\ startVersion = 0
  /\ runner = "Idle"
  /\ plan = <<>>
  /\ inflight = NoStep
  /\ opsLog = <<>>
  /\ writes = <<>>
  /\ backup = NoBackup
  /\ error = NoError
  /\ dupErrors = 0
  /\ latestNotice = FALSE
  /\ dbCalls = {}

\* cli.ts:143-144
Discover ==
  /\ pc = "start"
  /\ versions' = FilterVersions(ReaddirSync(dir))
  /\ pc' = "discovered"
  /\ UNCHANGED <<dir, argv, configFile, config, cb, registry, store, startVersion, runner, plan,
                 inflight, opsLog, writes, backup, error, dupErrors, latestNotice, dbCalls>>

\* cli.ts:147-157: the existence check, the normalisation, migrator.config called
MigrateCommand ==
  /\ pc = "discovered"
  /\ LET versionsArray == VersionsArray(versions)
     IN IF ~VersionExists(argv.migration, versionsArray)
          THEN /\ error' = [kind |-> "UnknownVersion", failing |-> argv.migration,
                            last |-> store]
               /\ pc' = "exited"
               /\ UNCHANGED versions
          ELSE /\ versions' = NormalisedVersions(versionsArray)
               /\ pc' = "config"
               /\ UNCHANGED error
  /\ UNCHANGED <<dir, argv, configFile, config, cb, registry, store, startVersion, runner, plan,
                 inflight, opsLog, writes, backup, dupErrors, latestNotice, dbCalls>>

\* cli.ts:157-175: migrator.config resolves; versions.forEach starts every
\* callback (each runs up to its first await); then getVersion or migrateTo
\* is called, before any callback resumes.
ConfigResolved ==
  /\ pc = "config"
  /\ cb' = [i \in 1..Len(versions) |-> CallbackStart(dir, versions[i])]
  /\ pc' = IF NeedsBackup(config) THEN "getVersion" ELSE "migrateTo"
  /\ UNCHANGED <<dir, argv, configFile, config, versions, registry, store, startVersion, runner,
                 plan, inflight, opsLog, writes, backup, error, dupErrors, latestNotice, dbCalls>>

(***************************************************************************)
(* The migrator of the `underbase` package: Unit Registry, Version Store   *)
(* and Migration Runner.                                                   *)
(***************************************************************************)
\* Registry.has(version)
Has(reg, v) == v \in Range(reg)

\* Add without the duplicate check
AddNoCheck(reg, v) ==
  LET below == SelectSeq(reg, LAMBDA u : u <= v)
      above == SelectSeq(reg, LAMBDA u : u > v)
  IN below \o <<v>> \o above

\* Registry.add(unit): the registry with the unit placed by ascending version;
\* a version already registered is a DuplicateVersionError and changes nothing
Add(reg, v) ==
  IF Has(reg, v) THEN reg
  ELSE LET below == SelectSeq(reg, LAMBDA u : u < v)
           above == SelectSeq(reg, LAMBDA u : u > v)
       IN below \o <<v>> \o above

\* the registered version just below v, or 0
Previous(reg, v) ==
  LET lower == {u \in Range(reg) : u < v}
  IN IF lower = {} THEN 0 ELSE CHOOSE u \in lower : \A w \in lower : w <= u

Reverse(s) == [i \in 1..Len(s) |-> s[Len(s) + 1 - i]]

\* migrateTo, step 5: the ordered steps from current to target
Plan(reg, current, target, forceRerun) ==
  IF target > current
    THEN LET units == SelectSeq(reg, LAMBDA v : current < v /\ v <= target)
         IN [i \in 1..Len(units) |->
               [direction |-> "up", version |-> units[i], result |-> units[i],
                phase |-> "op"]]
  ELSE IF target < current
    THEN LET units == Reverse(SelectSeq(reg, LAMBDA v : target < v /\ v <= current))
         IN [i \in 1..Len(units) |->
               [direction |-> "down", version |-> units[i],
                result |-> Previous(reg, units[i]), phase |-> "op"]]
  ELSE IF forceRerun
    THEN <<[direction |-> "up", version |-> current, result |-> current, phase |-> "op"]>>
  ELSE <<>>

\* migrateTo, step 3: nothing to do
IsNoop(current, spec) == spec.target = current /\ ~spec.forceRerun

\* migrateTo, step 3: the "already at latest" notice, unless configured off
EmitsLatestNotice(cfg) == cfg.logIfLatest

\* migrateTo, step 4 and the edge-case policy for 0: the target is no
\* registered version, or it is 0 and the direction is not backward
IsUnknown(reg, current, spec) ==
  \/ spec.target # 0 /\ ~Has(reg, spec.target)
  \/ spec.target = 0 /\ current = 0

\* OnUnitFailure with the plan carried on after the error is noted
OnUnitFailureContinue(step, current) ==
  [runner |-> "Executing",
   error |-> [kind |-> "UnitExecutionError", failing |-> step.version, last |-> current]]

\* what a failed unit operation does to the run: the remaining plan is
\* dropped, applied units stay applied
OnUnitFailure(step, current) ==
  [runner |-> "Failed",
   error |-> [kind |-> "UnitExecutionError", failing |-> step.version, last |-> current]]

\* OnPersistFailure with the unit put back at the head of the plan and the
\* run carried on
OnPersistFailureRetry(step, current, rest) ==
  [runner |-> "Executing",
   error |-> [kind |-> "PersistenceError", failing |-> step.version, last |-> current],
   plan |-> <<[step EXCEPT !.phase = "op"]>> \o rest]

\* what a failed Version Store write does to the run: the version is not
\* advanced, the run halts, the unit is not retried
OnPersistFailure(step, current, rest) ==
  [runner |-> "Failed",
   error |-> [kind |-> "PersistenceError", failing |-> step.version, last |-> current],
   plan |-> rest]

(***************************************************************************)
(* A migration unit, as the repository's sample writes it: up and down     *)
(* call db.collection('users').updateMany(...) and return without          *)
(* returning or awaiting its promise.                                      *)
(***************************************************************************)
\* the calls in flight once the step's operation has returned
SampleUnit(calls, step) == calls \cup {<<step.direction, step.version>>}

(***************************************************************************)
(* The registration callbacks (cli.ts:159-163), resumed one by one by the  *)
(* microtask queue in the order forEach started them.                      *)
(***************************************************************************)
RegisterUnit ==
  /\ MicrotaskPending
  /\ LET i == CHOOSE k \in 1..Len(cb) :
                cb[k] = "loaded" /\ \A j \in 1..(k - 1) : cb[j] # "loaded"
         version == ParseFloat(versions[i])
     IN IF Has(registry, version)
          THEN /\ cb' = [cb EXCEPT ![i] = "rejected"]
               /\ dupErrors' = dupErrors + 1
               /\ registry' = Add(registry, version)
          ELSE /\ cb' = [cb EXCEPT ![i] = "added"]
               /\ registry' = Add(registry, version)
               /\ UNCHANGED dupErrors
  /\ UNCHANGED <<dir, argv, configFile, config, pc, versions, store, startVersion, runner, plan,
                 inflight, opsLog, writes, backup, error, latestNotice, dbCalls>>

(***************************************************************************)
(* The backup step (cli.ts:165-169, 36-65).                                *)
(***************************************************************************)
\* backupFile with the version written as JavaScript prints a number
BackupFileNoFixed(version) == NumToStr(version)

\* cli.ts:42-45: the version prefix of the archive's name,
\* `${version.toFixed(1)}_${Date.now()}.gz`
BackupFile(version) == ToFixed1(version)

\* migrator.getVersion resolves; createBackup(currentVersion) starts mongodump
GetVersionResolved ==
  /\ pc = "getVersion"
  /\ ~MicrotaskPending
  /\ backup' = [count |-> backup.count + 1, status |-> "running", file |-> BackupFile(store)]
  /\ pc' = "backup"
  /\ UNCHANGED <<dir, argv, configFile, config, versions, cb, registry, store, startVersion, runner,
                 plan, inflight, opsLog, writes, error, dupErrors, latestNotice, dbCalls>>

\* the exec callback
BackupDone ==
  /\ pc = "backup"
  /\ ~MicrotaskPending
  /\ \E failed \in BOOLEAN :
       /\ backup' = [backup EXCEPT !.status = IF failed THEN "failed" ELSE "ok"]
       /\ pc' = AfterBackup(failed)
       /\ error' = IF failed
                     THEN [kind |-> "BackupError", failing |-> 0, last |-> store]
                     ELSE error
  /\ UNCHANGED <<dir, argv, configFile, config, versions, cb, registry, store, startVersion, runner,
                 plan, inflight, opsLog, writes, dupErrors, latestNotice, dbCalls>>

(***************************************************************************)
(* migrator.migrateTo (cli.ts:171-175).                                    *)
(***************************************************************************)
\* steps 1-5: parse the spec, read the current version, decide, plan
PlanRun ==
  /\ pc = "migrateTo"
  /\ runner = "Idle"
  /\ ~MicrotaskPending
  /\ LET spec == MigrateSpec(argv.migration, argv.rerun)
         current == store
     IN IF IsNoop(current, spec)
          THEN /\ runner' = "Completed"
               /\ latestNotice' = EmitsLatestNotice(config)
               /\ UNCHANGED <<plan, error>>
        ELSE IF IsUnknown(registry, current, spec)
          THEN /\ runner' = "Failed"
               /\ error' = [kind |-> "UnknownVersionError", failing |-> spec.target,
                            last |-> current]
               /\ UNCHANGED <<plan, latestNotice>>
        ELSE /\ runner' = "PlanningComputed"
             /\ plan' = Plan(registry, current, spec.target, spec.forceRerun)
             /\ UNCHANGED <<error, latestNotice>>
  /\ UNCHANGED <<dir, argv, configFile, config, pc, versions, cb, registry, store, startVersion,
                 inflight, opsLog, writes, backup, dupErrors, dbCalls>>

\* step 6: enter Executing
EnterExecuting ==
  /\ runner = "PlanningComputed"
  /\ runner' = "Executing"
  /\ UNCHANGED <<dir, argv, configFile, config, pc, versions, cb, registry, store, startVersion,
                 plan, inflight, opsLog, writes, backup, error, dupErrors, latestNotice, dbCalls>>

\* step 6: the next planned unit's operation is started
StartUnit ==
  /\ runner = "Executing"
  /\ inflight = NoStep
  /\ plan # <<>>
  /\ inflight' = Head(plan)
  /\ plan' = Tail(plan)
  /\ opsLog' = Append(opsLog, <<Head(plan).direction, Head(plan).version>>)
  /\ UNCHANGED <<dir, argv, configFile, config, pc, versions, cb, registry, store, startVersion,
                 runner, writes, backup, error, dupErrors, latestNotice, dbCalls>>

\* step 6: the operation returns (setVersion is called) or throws.  A unit
\* that returns has issued its database call, which nothing awaits.
UnitDone ==
  /\ runner = "Executing"
  /\ inflight.phase = "op"
  /\ \E ok \in BOOLEAN :
       IF ok
         THEN /\ inflight' = [inflight EXCEPT !.phase = "persist"]
              /\ dbCalls' = SampleUnit(dbCalls, inflight)
              /\ UNCHANGED <<runner, error>>
         ELSE /\ inflight' = NoStep
              /\ runner' = OnUnitFailure(inflight, store).runner
              /\ error' = OnUnitFailure(inflight, store).error
              /\ UNCHANGED dbCalls
  /\ UNCHANGED <<dir, argv, configFile, config, pc, versions, cb, registry, store, startVersion,
                 plan, opsLog, writes, backup, dupErrors, latestNotice>>

\* the updateMany of a unit resolves or rejects; the promise was dropped, so
\* neither outcome reaches the Runner
DbCallDone ==
  /\ pc \notin {"exited", "crashed"}
  /\ ~MicrotaskPending
  /\ \E call \in dbCalls : dbCalls' = dbCalls \ {call}
  /\ UNCHANGED <<dir, argv, configFile, config, pc, versions, cb, registry, store, startVersion,
                 runner, plan, inflight, opsLog, writes, backup, error, dupErrors,
                 latestNotice>>

\* step 6: setVersion resolves or fails (PersistenceError)
PersistDone ==
  /\ runner = "Executing"
  /\ inflight.phase = "persist"
  /\ \E ok \in BOOLEAN :
       IF ok
         THEN /\ store' = inflight.result
              /\ writes' = Append(writes, inflight.result)
              /\ UNCHANGED <<runner, error, plan>>
         ELSE /\ runner' = OnPersistFailure(inflight, store, plan).runner
              /\ error' = OnPersistFailure(inflight, store, plan).error
              /\ plan' = OnPersistFailure(inflight, store, plan).plan
              /\ UNCHANGED <<store, writes>>
  /\ inflight' = NoStep
  /\ UNCHANGED <<dir, argv, configFile, config, pc, versions, cb, registry, startVersion,
                 opsLog, backup, dupErrors, latestNotice, dbCalls>>

\* step 7: the full plan has completed
PlanCompleted ==
  /\ runner = "Executing"
  /\ inflight = NoStep
  /\ plan = <<>>
  /\ runner' = "Completed"
  /\ UNCHANGED <<dir, argv, configFile, config, pc, versions, cb, registry, store, startVersion,
                 plan, inflight, opsLog, writes, backup, error, dupErrors, latestNotice, dbCalls>>

\* cli.ts:177, 201: migrateTo resolved; break; process.exit()
MainExit ==
  /\ pc = "migrateTo"
  /\ runner = "Completed"
  /\ pc' = "exited"
  /\ UNCHANGED <<dir, argv, configFile, config, versions, cb, registry, store, startVersion, runner,
                 plan, inflight, opsLog, writes, backup, error, dupErrors, latestNotice, dbCalls>>

\* cli.ts:127-202: migrateTo rejected, so the main async function rejects and
\* line 201 is not reached
MainReject ==
  /\ pc = "migrateTo"
  /\ runner = "Failed"
  /\ pc' = "rejected"
  /\ UNCHANGED <<dir, argv, configFile, config, versions, cb, registry, store, startVersion, runner,
                 plan, inflight, opsLog, writes, backup, error, dupErrors, latestNotice, dbCalls>>

\* the process dies where it stands (killed, out of memory, power loss)
Crash ==
  /\ pc \notin {"exited", "rejected", "crashed"}
  /\ pc' = "crashed"
  /\ UNCHANGED <<dir, argv, configFile, config, versions, cb, registry, store, startVersion, runner,
                 plan, inflight, opsLog, writes, backup, error, dupErrors, latestNotice, dbCalls>>

\* the next invocation of the command: another command line, against the same
\* database
Invoke ==
  /\ pc \in {"exited", "rejected", "crashed"}
  /\ argv' \in [migration : Migrations, rerun : BOOLEAN]
  /\ configFile' \in [logIfLatest : FileLogIfLatest]
  /\ config' \in {[backup |-> ConfigBackup(a, f),
                   logIfLatest |-> ConfigLogIfLatest(configFile'.logIfLatest)] :
                    a, f \in BOOLEAN}
  /\ pc' = "start"
  /\ versions' = <<>>
  /\ cb' = <<>>
  /\ registry' = <<>>
  /\ startVersion' = store
  /\ runner' = "Idle"
  /\ plan' = <<>>
  /\ inflight' = NoStep
  /\ opsLog' = <<>>
  /\ writes' = <<>>
  /\ backup' = NoBackup
  /\ error' = NoError
  /\ dupErrors' = 0
  /\ latestNotice' = FALSE
  /\ dbCalls' = {}
  /\ UNCHANGED <<dir, store>>

\* the migrations directory the command is about to read is not the one the
\* previous invocation read: it was edited, or --migrations-dir names another
ChangeDirectory ==
  /\ pc = "start"
  /\ dir' \in Directories \ {dir}
  /\ UNCHANGED <<argv, configFile, config, pc, versions, cb, registry, store, startVersion, runner,
                 plan, inflight, opsLog, writes, backup, error, dupErrors, latestNotice, dbCalls>>

Next ==
  \/ Discover
  \/ MigrateCommand
  \/ ConfigResolved
  \/ RegisterUnit
  \/ GetVersionResolved
  \/ BackupDone
  \/ PlanRun
  \/ EnterExecuting
  \/ StartUnit
  \/ UnitDone
  \/ DbCallDone
  \/ PersistDone
  \/ PlanCompleted
  \/ MainExit
  \/ MainReject
  \/ Crash
  \/ Invoke
  \/ ChangeDirectory

Spec == Init /\ [][Next]_vars

(***************************************************************************)
(* Vocabulary of the properties.                                           *)
(***************************************************************************)
\* the process has ended: process.exit() was called, or the main function rejected
Ended == pc \in {"exited", "rejected"}

\* the existence check of the command has been passed or has rejected the run
\* (a process that died is not said to have checked anything)
Checked == pc \notin {"start", "discovered", "crashed"}

\* the versions the command derives from the directory listing
DiscoveredVersions == {ParseFloat(n) : n \in {e \in dir : MatchesVersionPattern(e)}}

IsPrefix(s, t) == Len(s) <= Len(t) /\ \A i \in 1..Len(s) : s[i] = t[i]

\* the elements of a set of numbers, ascending
RECURSIVE Ascending(_)
Ascending(S) ==
  IF S = {} THEN <<>>
  ELSE LET m == CHOOSE x \in S : \A y \in S : x <= y
       IN <<m>> \o Ascending(S \ {m})

\* the elements of a set of numbers, descending
RECURSIVE Descending(_)
Descending(S) ==
  IF S = {} THEN <<>>
  ELSE LET m == CHOOSE x \in S : \A y \in S : x >= y
       IN <<m>> \o Descending(S \ {m})

\* the value the Version Store must hold given the writes of this process
LastPersisted == IF writes = <<>> THEN startVersion ELSE writes[Len(writes)]

\* the run was turned down as naming an unknown version
RejectedUnknown == error.kind \in {"UnknownVersion", "UnknownVersionError"}

(***************************************************************************)
(* C1.  A migrate request whose target is not 0 and is not one of the      *)
(* versions the command discovered in the migrations directory is rejected *)
(* with the unknown-version error, and nothing is mutated: no unit         *)
(* operation runs, the Runner is never started and the persisted           *)
(* currentVersion is the one the process found.                            *)
(***************************************************************************)
C1_UnknownTargetRejected ==
  (Checked /\ argv.migration # 0 /\ argv.migration \notin DiscoveredVersions)
    => /\ pc = "exited"
       /\ error.kind = "UnknownVersion"
       /\ runner = "Idle"
       /\ opsLog = <<>>
       /\ writes = <<>>
       /\ backup.count = 0
       /\ store = startVersion

\* registry {1.0, 1.1}, migrate 2.0 at a current version other than 0
C1_Witness ==
  /\ pc = "exited"
  /\ error.kind = "UnknownVersion"
  /\ argv.migration = 20
  /\ DiscoveredVersions = {10, 11}
  /\ store = 11

(***************************************************************************)
(* C2.  createBackup is invoked at most once per run; with backups         *)
(* disabled it is never invoked; with backups enabled, by the time         *)
(* migrateTo is called - hence before the first unit operation starts - it *)
(* has been invoked exactly once and has completed successfully.           *)
(***************************************************************************)
C2_BackupBeforeUnits ==
  /\ backup.count <= 1
  /\ ~config.backup => backup.count = 0
  /\ (config.backup /\ (pc = "migrateTo" \/ runner # "Idle" \/ opsLog # <<>>))
       => (backup.count = 1 /\ backup.status = "ok")

C2_Witness ==
  /\ config.backup
  /\ backup.count = 1
  /\ backup.status = "ok"
  /\ inflight.phase = "op"
  /\ Len(opsLog) = 1

(***************************************************************************)
(* C3.  When the backup step fails the run aborts before any unit          *)
(* executes: the process exits, migrateTo is never called, no operation is *)
(* started and currentVersion is unchanged.                                *)
(***************************************************************************)
C3_BackupFailureAborts ==
  backup.status = "failed"
    => /\ pc = "exited"
       /\ error.kind = "BackupError"
       /\ runner = "Idle"
       /\ opsLog = <<>>
       /\ writes = <<>>
       /\ store = startVersion

\* a run that had units to apply
C3_Witness ==
  /\ backup.status = "failed"
  /\ pc = "exited"
  /\ argv.migration = 12
  /\ registry = <<10, 11, 12>>
  /\ store = 10

(***************************************************************************)
(* C4.  Forward migration.  When the target is registered and greater than *)
(* the current version, the operations started are `up`, for the           *)
(* registered units with current < version <= target and no other, in      *)
(* ascending order; each unit's own version is persisted after its up      *)
(* succeeds and before the next unit starts; a run that completes has run  *)
(* them all and leaves currentVersion == target.                           *)
(***************************************************************************)
ForwardOps ==
  LET units == Ascending({v \in Range(registry) : startVersion < v /\ v <= argv.migration})
  IN [i \in 1..Len(units) |-> <<"up", units[i]>>]

C4_ForwardMigration ==
  (runner # "Idle" /\ Has(registry, argv.migration) /\ argv.migration > startVersion)
    => /\ ~RejectedUnknown
       /\ IsPrefix(opsLog, ForwardOps)
       /\ IsPrefix(writes, [i \in 1..Len(opsLog) |-> opsLog[i][2]])
       /\ Len(opsLog) <= Len(writes) + 1
       /\ (inflight = NoStep /\ runner = "Executing") => Len(writes) = Len(opsLog)
       /\ store = LastPersisted
       /\ runner = "Completed"
            => (opsLog = ForwardOps /\ Len(writes) = Len(opsLog) /\ store = argv.migration)

\* registry {1.0, 1.1, 1.2}, current 1.0, target 1.2
C4_Witness ==
  /\ registry = <<10, 11, 12>>
  /\ startVersion = 10
  /\ argv.migration = 12
  /\ runner = "Completed"
  /\ opsLog = <<<<"up", 11>>, <<"up", 12>>>>
  /\ writes = <<11, 12>>
  /\ store = 12

(***************************************************************************)
(* C5.  Backward migration, as claimed.  When the target (registered, or 0 *)
(* for a full rollback) is less than the current version, the request is   *)
(* not turned down as unknown; the operations started are `down`, for the  *)
(* registered units with target < version <= current and no other, in      *)
(* descending order; after each successful down the version just below     *)
(* that unit is persisted; a run that completes leaves                     *)
(* currentVersion == target.                                               *)
(***************************************************************************)
BackwardOps ==
  LET units == Descending({v \in Range(registry) : argv.migration < v /\ v <= startVersion})
  IN [i \in 1..Len(units) |-> <<"down", units[i]>>]

\* the registered version just below v, or 0
JustBelow(v) ==
  LET lower == {u \in Range(registry) : u < v} \cup {0}
  IN CHOOSE u \in lower : \A w \in lower : w <= u

BackwardRequest ==
  /\ argv.migration < startVersion
  /\ \/ argv.migration = 0
     \/ runner # "Idle" /\ Has(registry, argv.migration)

BackwardSteps ==
  /\ Ended /\ argv.migration = 0 => ~RejectedUnknown
  /\ runner # "Idle"
       => /\ ~RejectedUnknown
          /\ IsPrefix(opsLog, BackwardOps)
          /\ IsPrefix(writes, [i \in 1..Len(opsLog) |-> JustBelow(opsLog[i][2])])
          /\ Len(opsLog) <= Len(writes) + 1
          /\ (inflight = NoStep /\ runner = "Executing") => Len(writes) = Len(opsLog)
          /\ store = LastPersisted
          /\ runner = "Completed" => (opsLog = BackwardOps /\ Len(writes) = Len(opsLog))

C5_BackwardMigration_Claimed ==
  BackwardRequest
    => /\ BackwardSteps
       /\ runner = "Completed" => store = argv.migration

(***************************************************************************)
(* C5, amended.  As above, but a run that completes leaves                 *)
(* currentVersion == target when at least one registered unit lies in      *)
(* target < version <= current (always so when the current version is      *)
(* itself registered); with no such unit the plan is empty, nothing runs   *)
(* and currentVersion keeps its value.                                     *)
(***************************************************************************)
C5_BackwardMigration ==
  BackwardRequest
    => /\ BackwardSteps
       /\ runner = "Completed"
            => store = (IF BackwardOps = <<>> THEN startVersion ELSE argv.migration)

\* registry {1.0, 1.1, 1.2}, current 1.2, target 1.0
C5_Witness ==
  /\ registry = <<10, 11, 12>>
  /\ startVersion = 12
  /\ argv.migration = 10
  /\ runner = "Completed"
  /\ opsLog = <<<<"down", 12>>, <<"down", 11>>>>
  /\ writes = <<11, 10>>
  /\ store = 10

(***************************************************************************)
(* C6.  Abort on failure.  Once a unit's operation has failed the run is   *)
(* Failed; the failed operation is the last one started (no later unit of  *)
(* the plan, and no compensating operation in the other direction, is      *)
(* started); currentVersion is the resulting version of the last step that *)
(* succeeded before it; and the error names the failing unit's version and *)
(* that last version.                                                      *)
(***************************************************************************)
C6_AbortOnFailure ==
  error.kind = "UnitExecutionError"
    => /\ runner = "Failed"
       /\ inflight = NoStep
       /\ opsLog # <<>>
       /\ Len(opsLog) = Len(writes) + 1
       /\ opsLog[Len(opsLog)][2] = error.failing
       /\ \A i \in 1..Len(opsLog) : opsLog[i][1] = opsLog[1][1]
       /\ \A i, j \in 1..Len(opsLog) : opsLog[i][2] = opsLog[j][2] => i = j
       /\ store = LastPersisted
       /\ error.last = store

\* current 1.0, target 1.2: up(1.1) succeeds, up(1.2) fails
C6_Witness ==
  /\ error.kind = "UnitExecutionError"
  /\ startVersion = 10
  /\ argv.migration = 12
  /\ opsLog = <<<<"up", 11>>, <<"up", 12>>>>
  /\ store = 11
  /\ error.failing = 12
  /\ pc = "rejected"

(***************************************************************************)
(* C7, as claimed.  For every version v, a request for v when              *)
(* currentVersion == v and rerun is not requested executes no unit         *)
(* operation, writes nothing to the Version Store, leaves the state        *)
(* unchanged, and the run ends Completed (a run the failed backup step     *)
(* aborted, C3, aside).                                                    *)
(***************************************************************************)
NoopRequest == argv.migration = startVersion /\ ~argv.rerun

NoopTouchesNothing ==
  /\ opsLog = <<>>
  /\ writes = <<>>
  /\ store = startVersion

C7_NoopIdempotent_Claimed ==
  NoopRequest
    => /\ NoopTouchesNothing
       /\ (Ended /\ backup.status # "failed") => runner = "Completed"

(***************************************************************************)
(* C7, amended.  For every version v, a request for v when                 *)
(* currentVersion == v and rerun is not requested executes no unit         *)
(* operation, writes nothing to the Version Store and leaves the state     *)
(* unchanged; the run ends Completed when v is 0 or one of the versions    *)
(* discovered in the migrations directory (a run the failed backup step    *)
(* aborted aside); for any other v the command rejects the request as an   *)
(* unknown version and the Runner is never started.                        *)
(***************************************************************************)
C7_NoopIdempotent ==
  NoopRequest
    => /\ NoopTouchesNothing
       /\ Ended
            => IF argv.migration # 0 /\ argv.migration \notin DiscoveredVersions
                 THEN error.kind = "UnknownVersion" /\ runner = "Idle"
               ELSE IF backup.status = "failed"
                 THEN error.kind = "BackupError" /\ runner = "Idle"
               ELSE runner = "Completed" /\ pc = "exited" /\ error = NoError

\* a no-op run at a registered version that is not 0
C7_Witness ==
  /\ NoopRequest
  /\ startVersion = 11
  /\ Has(registry, 11)
  /\ pc = "exited"
  /\ runner = "Completed"

(***************************************************************************)
(* C8.  Rerun.  A request for a registered version v with the rerun flag,  *)
(* issued when currentVersion == v, starts up(v) and nothing else, exactly *)
(* once by the time migrateTo returns, and currentVersion stays v.         *)
(***************************************************************************)
C8_Rerun ==
  (argv.rerun /\ argv.migration = startVersion /\ runner # "Idle"
     /\ Has(registry, argv.migration))
    => /\ ~RejectedUnknown
       /\ IsPrefix(opsLog, <<<<"up", argv.migration>>>>)
       /\ store = argv.migration
       /\ \A i \in 1..Len(writes) : writes[i] = argv.migration
       /\ runner \in {"Completed", "Failed"} => opsLog = <<<<"up", argv.migration>>>>

\* current 1.1, migrate 1.1 with rerun
C8_Witness ==
  /\ argv.rerun
  /\ argv.migration = 11
  /\ startVersion = 11
  /\ runner = "Completed"
  /\ opsLog = <<<<"up", 11>>>>
  /\ store = 11

(***************************************************************************)
(* C9.  Discovery rule, as claimed.  The entries of the directory listing  *)
(* treated as version identifiers are exactly those whose name is a digit, *)
(* a literal dot, a digit; no other entry yields a registration.           *)
(***************************************************************************)
IsVersionName(n) ==
  /\ Len(n) = 3
  /\ n[1] \in Digits
  /\ n[2] = "."
  /\ n[3] \in Digits

C9_DiscoveryRule_Claimed ==
  /\ pc = "discovered" => Range(versions) = {n \in dir : IsVersionName(n)}
  /\ Len(cb) <= Cardinality({n \in dir : IsVersionName(n)})

(***************************************************************************)
(* C10.  Registry uniqueness.  The registry never holds two units of the   *)
(* same version (it is strictly ascending); an add of a version already    *)
(* registered fails with the duplicate-version error and leaves the        *)
(* registry unchanged; and every add, failed ones included, happens before *)
(* the Runner is started, so before any unit executes.                     *)
(***************************************************************************)
RegistryUnique == \A i, j \in 1..Len(registry) : i < j => registry[i] < registry[j]

AddsPrecedeUnits == MicrotaskPending => (runner = "Idle" /\ opsLog = <<>>)

DuplicateLeavesRegistry ==
  /\ dupErrors' > dupErrors => (registry' = registry /\ opsLog = <<>> /\ runner = "Idle")
  /\ (registry' # registry /\ pc' # "start")
       => (Len(registry') = Len(registry) + 1 /\ opsLog = <<>> /\ runner = "Idle")

NoopRun == NoopRequest /\ runner = "Completed"

C11_NoticeSuppressible_Claimed ==
  /\ NoopRun => (latestNotice <=> configFile.logIfLatest # "false")
  /\ ~NoopRun => ~latestNotice

(***************************************************************************)
(* C12.  Registry populated before the run starts, as claimed.  Whenever   *)
(* the backup step's getVersion or migrateTo has been called, no           *)
(* registration is still to come: every callback of versions.forEach has   *)
(* made its add.                                                           *)
(***************************************************************************)
RunBegun == pc \in {"getVersion", "backup", "migrateTo"} \/ runner # "Idle"

C12_RegistryBeforeRun_Claimed == RunBegun => ~MicrotaskPending

(***************************************************************************)
(* C13.  Strict sequencing, as claimed.  While a unit's operation is being *)
(* run, every database call of the units before it has resolved and their  *)
(* resulting versions are persisted; at no time are two unit operations    *)
(* (database calls included) in progress.                                  *)
(***************************************************************************)
\* the unit operations in progress: the one the Runner awaits, and the calls
\* still in flight
InProgress ==
  dbCalls \cup (IF inflight.phase = "op"
                  THEN {<<inflight.direction, inflight.version>>} ELSE {})

C13_StrictSequencing_Claimed ==
  /\ inflight.phase = "op" => (dbCalls = {} /\ Len(writes) = Len(opsLog) - 1)
  /\ Cardinality(InProgress) <= 1

(***************************************************************************)
(* C14.  Crash consistency, as claimed.  In every state, a crashed one     *)
(* included, the persisted version is the last one written by the run (or  *)
(* the version the run started from), and every version written is the     *)
(* result of a step whose operation has completed: none of its database    *)
(* calls is still in flight.                                               *)
(***************************************************************************)
C14_CrashConsistency_Claimed ==
  /\ store = LastPersisted
  /\ Len(writes) <= Len(opsLog)
  /\ \A i \in 1..Len(writes) : opsLog[i] \notin dbCalls

(***************************************************************************)
(* C15.  No silent retry.  Within one migrateTo call no unit operation is  *)
(* started twice.  Once the Version Store write has failed after a unit    *)
(* succeeded, the run is Failed with a persistence error naming that unit  *)
(* and the version still in force; the version is not advanced (the store  *)
(* holds the last confirmed write); and that unit's operation is the last  *)
(* one started: no further unit is started and it is not run again.        *)
(***************************************************************************)
C15_NoSilentRetry ==
  /\ \A i, j \in 1..Len(opsLog) : opsLog[i] = opsLog[j] => i = j
  /\ error.kind = "PersistenceError"
       => /\ runner = "Failed"
          /\ inflight = NoStep
          /\ opsLog # <<>>
          /\ Len(opsLog) = Len(writes) + 1
          /\ opsLog[Len(opsLog)][2] = error.failing
          /\ store = LastPersisted
          /\ error.last = store

\* current 1.0, target 1.2: up(1.1) is persisted, the write after up(1.2)
\* fails, and the main function has rejected
C15_Witness ==
  /\ error.kind = "PersistenceError"
  /\ startVersion = 10
  /\ argv.migration = 12
  /\ opsLog = <<<<"up", 11>>, <<"up", 12>>>>
  /\ writes = <<11>>
  /\ store = 11
  /\ error.failing = 12
  /\ plan = <<>>
  /\ pc = "rejected"

(***************************************************************************)
(* C16.  The backup archive is named after the version in force before the *)
(* run.  Once the backup step has named its archive, the name's version    *)
(* prefix is a digit, a dot and one fractional digit, and it reads back as *)
(* the currentVersion the run started from, whatever the target and        *)
(* whatever versions the run has persisted since.                          *)
(***************************************************************************)
C16_BackupNamedBefore ==
  backup.status # "none"
    => /\ Len(backup.file) = 3
       /\ backup.file[1] \in Digits
       /\ backup.file[2] = "."
       /\ backup.file[3] \in Digits
       /\ ParseFloat(backup.file) = startVersion
       /\ opsLog = <<>> => store = startVersion

\* current 1.0, migrate 1.2 with backup on: the archive is 1.0_..., and the
\* run has gone through 1.1 to 1.2
C16_Witness ==
  /\ backup.status = "ok"
  /\ backup.file = <<"1", ".", "0">>
  /\ startVersion = 10
  /\ argv.migration = 12
  /\ writes = <<11, 12>>
  /\ store = 12
  /\ runner = "Completed"

(***************************************************************************)
(* C17.  Termination, as claimed.  A run that has reached Completed or     *)
(* Failed terminates the process: once migrateTo has handed the outcome    *)
(* back to the main function, process.exit() has been called.  (A process  *)
(* that died on the way is not a run that ended.)                          *)
(***************************************************************************)
\* the Runner is in a terminal state and the main function has taken the
\* outcome of migrateTo
RunOver == runner \in {"Completed", "Failed"} /\ pc \notin {"migrateTo", "crashed"}

C17_Termination_Claimed == RunOver => pc = "exited"
====
